---- MODULE Spec2Model ----
(***************************************************************************)
(* The article cleaning pipeline of src/cleaning.py: the schema validator, *)
(* the text sanitizer, the Unicode/case, sentence-boundary and numeric     *)
(* normalizers, the linguistic gate, the statistics annotator and the      *)
(* batch driver process_articles.                                          *)
(*                                                                         *)
(* A Python str is a sequence of code points.  A code point is a string:   *)
(* a printable ASCII character is itself ("a", "<", " "), every other code *)
(* point is written by name ("NUL", "NBSP", "LSQUO", ...), and so are the  *)
(* double quote ("DQUOTE"), backslash ("BACKSLASH"), backtick ("BACKTICK"). *)
(***************************************************************************)
EXTENDS Integers, Sequences, FiniteSets, TLC

(***************************************************************************)
(* Code points and character classes                                       *)
(***************************************************************************)
Lowers ==
  << "a","b","c","d","e","f","g","h","i","j","k","l","m",
     "n","o","p","q","r","s","t","u","v","w","x","y","z" >>

Uppers ==
  << "A","B","C","D","E","F","G","H","I","J","K","L","M",
     "N","O","P","Q","R","S","T","U","V","W","X","Y","Z" >>

Range(f) == { f[i] : i \in DOMAIN f }

AsciiLower == Range(Lowers)

AsciiUpper == Range(Uppers)

Digits == { "0","1","2","3","4","5","6","7","8","9" }

\* string.punctuation
AsciiPunct ==
  { "!","DQUOTE","#","$","%","&","'","(",")","*","+",",","-",".","/",":",";",
    "<","=",">","?","@","[","BACKSLASH","]","^","_","BACKTICK","{","|","}","~" }

\* string.whitespace: space, tab, line feed, carriage return, VT, FF
AsciiSpace == { " ", "TAB", "LF", "CR", "VT", "FF" }

\* string.printable
Printable == Digits \cup AsciiLower \cup AsciiUpper \cup AsciiPunct \cup AsciiSpace

\* str.isspace() and the regex class \s: the ASCII whitespace and the
\* Unicode whitespace code points (of which the model has U+00A0 and U+2003).
Whitespace == AsciiSpace \cup { "NBSP", "EMSP" }

\* The regex class \w on the model's code points: letters, digits, underscore.
WordChars == AsciiLower \cup AsciiUpper \cup Digits \cup { "_", "EACUTE", "FW_A", "FW_a", "LIG_FI" }

\* A decimal numeric character reference "&#ddd...d;" with more digits than
\* the interpreter's limit for int(str) conversion, written as one token;
\* HugeRefLen is the number of code points it stands for.
HugeRef == "&#HUGE;"

HugeRefLen == 4304

\* len(text)
PyLen(text) ==
  Len(text) + Cardinality({ i \in DOMAIN text : text[i] = HugeRef }) * (HugeRefLen - 1)

ToLower(c) ==
  IF c \in AsciiUpper THEN Lowers[CHOOSE i \in DOMAIN Uppers : Uppers[i] = c]
  ELSE IF c = "FW_A" THEN "FW_a" ELSE c

ToUpper(c) ==
  IF c \in AsciiLower THEN Uppers[CHOOSE i \in DOMAIN Lowers : Lowers[i] = c]
  ELSE IF c = "FW_a" THEN "FW_A" ELSE c

\* str.lower() and str.upper(), code point by code point
lower(text) == [ i \in DOMAIN text |-> ToLower(text[i]) ]

upper(text) == [ i \in DOMAIN text |-> ToUpper(text[i]) ]

(***************************************************************************)
(* Searching in a text                                                     *)
(***************************************************************************)
MinOf(S) == CHOOSE x \in S : \A y \in S : x <= y

\* the first position j >= i whose code point is in S, Len(s)+1 if none
FindIn(s, i, S) ==
  LET js == { j \in i..Len(s) : s[j] \in S }
  IN IF js = {} THEN Len(s) + 1 ELSE MinOf(js)

\* the first position j >= i whose code point is not in S, Len(s)+1 if none
FindNotIn(s, i, S) ==
  LET js == { j \in i..Len(s) : s[j] \notin S }
  IN IF js = {} THEN Len(s) + 1 ELSE MinOf(js)

\* p occurs in s at position i
PrefixAt(s, i, p) ==
  /\ i >= 1
  /\ i + Len(p) - 1 <= Len(s)
  /\ \A k \in 1..Len(p) : s[i + k - 1] = p[k]

\* p occurs in s at position i, letter case ignored (re.IGNORECASE)
PrefixAtNoCase(s, i, p) ==
  /\ i >= 1
  /\ i + Len(p) - 1 <= Len(s)
  /\ \A k \in 1..Len(p) : ToLower(s[i + k - 1]) = ToLower(p[k])

\* the Python test "p in s"
Contains(s, p) == \E i \in 1..(Len(s) + 1) : PrefixAt(s, i, p)

\* str.strip(): whitespace removed at both ends
strip(text) ==
  LET a == FindNotIn(text, 1, Whitespace)
      back == [ k \in DOMAIN text |-> text[Len(text) + 1 - k] ]
      b == Len(text) + 1 - FindNotIn(back, 1, Whitespace)
  IN IF a > Len(text) THEN << >> ELSE SubSeq(text, a, b)

\* The first position j >= i at which a match of a pattern starts, 0 if none;
\* End(s, j) is the last position of the match that starts at j, 0 if none.
\* re.sub and str.replace go from match to match, left to right.
NextMatch(s, i, End(_, _)) ==
  LET js == { j \in i..Len(s) : End(s, j) > 0 }
  IN IF js = {} THEN 0 ELSE MinOf(js)

\* str.split(): the maximal runs of non-whitespace, counted
RECURSIVE CountTokens(_, _)
CountTokens(s, i) ==
  LET a == FindNotIn(s, i, Whitespace)
  IN IF a > Len(s) THEN 0
     ELSE 1 + CountTokens(s, FindIn(s, a, Whitespace))

(***************************************************************************)
(* html.unescape (line 119).  The pattern is                               *)
(*   &(#[0-9]+;?|#[xX][0-9a-fA-F]+;?|[^\t\n\f <&#;]{1,32};?)               *)
(* The model's texts hold no "#" outside HugeRef, so of the two numeric    *)
(* alternatives only HugeRef occurs; it is the replacement character where *)
(* the interpreter converts it, and a ValueError where the interpreter     *)
(* limits the digits of int(str) (UnescapeRaises).                         *)
(***************************************************************************)
\* html.entities.html5, the entries whose names the model's texts can spell
Html5 ==
  { [ name |-> << "l","t",";" >>,             text |-> << "<" >> ],
    [ name |-> << "l","t" >>,                 text |-> << "<" >> ],
    [ name |-> << "g","t",";" >>,             text |-> << ">" >> ],
    [ name |-> << "g","t" >>,                 text |-> << ">" >> ],
    [ name |-> << "a","m","p",";" >>,         text |-> << "&" >> ],
    [ name |-> << "a","m","p" >>,             text |-> << "&" >> ],
    [ name |-> << "r","s","q","u","o",";" >>, text |-> << "RSQUO" >> ],
    [ name |-> << "m","d","a","s","h",";" >>, text |-> << "EMDASH" >> ] }

Html5Names == { e.name : e \in Html5 }

Html5Text(n) == (CHOOSE e \in Html5 : e.name = n).text

\* the code points that end the name of a named character reference
NameStop == { "TAB", "LF", "FF", " ", "<", "&", "#", ";", HugeRef }

MaxRefName == 32

\* html._replace_charref on the group g of a named reference
ReplaceCharref(g) ==
  IF g \in Html5Names THEN Html5Text(g)
  ELSE LET xs == { x \in 2..(Len(g) - 1) : SubSeq(g, 1, x) \in Html5Names }
       IN IF xs = {} THEN << "&" >> \o g
          ELSE LET x == CHOOSE y \in xs : \A z \in xs : z <= y
               IN Html5Text(SubSeq(g, 1, x)) \o SubSeq(g, x + 1, Len(g))

\* the last position of the reference that starts at the "&" at i, 0 if none
CharrefEnd(s, i) ==
  LET stop == FindIn(s, i + 1, NameStop)
      e == IF stop - 1 > i + MaxRefName THEN i + MaxRefName ELSE stop - 1
  IN IF e < i + 1 THEN 0
     ELSE IF e + 1 <= Len(s) /\ s[e + 1] = ";" THEN e + 1 ELSE e

\* the last position of the character reference that starts at i, 0 if none
RefEnd(s, i) ==
  IF s[i] = HugeRef THEN i
  ELSE IF s[i] = "&" THEN CharrefEnd(s, i)
  ELSE 0

RECURSIVE UnescapeFrom(_, _)
UnescapeFrom(s, i) ==
  LET m == NextMatch(s, i, RefEnd)
  IN IF m = 0 THEN SubSeq(s, i, Len(s))
     ELSE SubSeq(s, i, m - 1)
            \o (IF s[m] = HugeRef THEN << "U+FFFD" >>
                ELSE ReplaceCharref(SubSeq(s, m + 1, RefEnd(s, m))))
            \o UnescapeFrom(s, RefEnd(s, m) + 1)

unescape(text) == UnescapeFrom(text, 1)

\* int() of the reference's digits raises ValueError
UnescapeRaises(text) == \E i \in DOMAIN text : text[i] = HugeRef

(***************************************************************************)
(* sanitize_text (lines 104-126)                                           *)
(***************************************************************************)
\* <[^>]+> : the last position of the match that starts at i, 0 if none
TagEnd(s, i) ==
  IF s[i] # "<" THEN 0
  ELSE LET j == FindIn(s, i + 1, { ">" })
       IN IF j <= Len(s) /\ j >= i + 2 THEN j ELSE 0

\* \S+ from position k on: the last position of the run, 0 if it is empty
NonSpaceRunEnd(s, k) ==
  LET e == FindIn(s, k, Whitespace) - 1
  IN IF k <= Len(s) /\ e >= k THEN e ELSE 0

\* https?://\S+|www\.\S+ with re.IGNORECASE: the last position of the match
\* that starts at i, 0 if none
UrlEnd(s, i) ==
  IF s[i] \notin { "h", "H", "w", "W" } THEN 0
  ELSE IF PrefixAtNoCase(s, i, << "h","t","t","p","s",":","/","/" >>)
       /\ NonSpaceRunEnd(s, i + 8) > 0
    THEN NonSpaceRunEnd(s, i + 8)
  ELSE IF PrefixAtNoCase(s, i, << "h","t","t","p",":","/","/" >>)
       /\ NonSpaceRunEnd(s, i + 7) > 0
    THEN NonSpaceRunEnd(s, i + 7)
  ELSE IF PrefixAtNoCase(s, i, << "w","w","w","." >>)
       /\ NonSpaceRunEnd(s, i + 4) > 0
    THEN NonSpaceRunEnd(s, i + 4)
  ELSE 0

\* re.sub(r'<[^>]+>', '', text)
RECURSIVE RemoveTags(_, _)
RemoveTags(s, i) ==
  LET m == NextMatch(s, i, TagEnd)
  IN IF m = 0 THEN SubSeq(s, i, Len(s))
     ELSE SubSeq(s, i, m - 1) \o RemoveTags(s, TagEnd(s, m) + 1)

\* re.sub(r'https?://\S+|www\.\S+', '', text, flags=re.IGNORECASE)
RECURSIVE RemoveUrls(_, _)
RemoveUrls(s, i) ==
  LET m == NextMatch(s, i, UrlEnd)
  IN IF m = 0 THEN SubSeq(s, i, Len(s))
     ELSE SubSeq(s, i, m - 1) \o RemoveUrls(s, UrlEnd(s, m) + 1)

\* ''.join(char for char in text if char in string.printable or char.isspace())
KeepPrintable(s) == SelectSeq(s, LAMBDA c : c \in Printable \/ c \in Whitespace)

\* \s+ : the last position of the match that starts at i, 0 if none
SpaceEnd(s, i) ==
  IF s[i] \in Whitespace THEN FindNotIn(s, i, Whitespace) - 1 ELSE 0

\* re.sub(r'\s+', ' ', text)
RECURSIVE CollapseSpace(_, _)
CollapseSpace(s, i) ==
  LET m == NextMatch(s, i, SpaceEnd)
  IN IF m = 0 THEN SubSeq(s, i, Len(s))
     ELSE SubSeq(s, i, m - 1) \o << " " >> \o CollapseSpace(s, SpaceEnd(s, m) + 1)

Terminals == { "!", "?", "." }

\* ([!?.]){2,} : the last position of the match that starts at i, 0 if none
PunctRunEnd(s, i) ==
  IF s[i] \notin Terminals THEN 0
  ELSE LET e == FindNotIn(s, i, Terminals) - 1
       IN IF e >= i + 1 THEN e ELSE 0

\* re.sub(r'([!?.]){2,}', r'\1', text): group 1 is the last mark of the run
RECURSIVE CollapsePunct(_, _)
CollapsePunct(s, i) ==
  LET m == NextMatch(s, i, PunctRunEnd)
  IN IF m = 0 THEN SubSeq(s, i, Len(s))
     ELSE SubSeq(s, i, m - 1) \o << s[PunctRunEnd(s, m)] >>
            \o CollapsePunct(s, PunctRunEnd(s, m) + 1)

sanitize_text(text) ==
  IF text = << >> THEN << >>
  ELSE LET t1 == unescape(text)
           t2 == RemoveTags(t1, 1)
           t3 == RemoveUrls(t2, 1)
           t4 == KeepPrintable(t3)
           t5 == CollapseSpace(t4, 1)
           t6 == CollapsePunct(t5, 1)
       IN strip(t6)

(***************************************************************************)
(* normalize_unicode_and_case (lines 129-150)                              *)
(***************************************************************************)
\* unicodedata.normalize('NFKC', .) on one code point of the model: the
\* compatibility mappings of U+00A0, U+2003, U+FF21, U+FF41 and U+FB01;
\* every other code point of the model is its own NFKC form.
NfkcOf(c) ==
  CASE c = "NBSP"   -> << " " >>
    [] c = "EMSP"   -> << " " >>
    [] c = "FW_A"   -> << "A" >>
    [] c = "FW_a"   -> << "a" >>
    [] c = "LIG_FI" -> << "f", "i" >>
    [] OTHER        -> << c >>

\* the position i itself where the code point at i is not its own NFKC form
NfkcEnd(s, i) == IF NfkcOf(s[i]) # << s[i] >> THEN i ELSE 0

RECURSIVE NfkcFrom(_, _)
NfkcFrom(s, i) ==
  LET m == NextMatch(s, i, NfkcEnd)
  IN IF m = 0 THEN SubSeq(s, i, Len(s))
     ELSE SubSeq(s, i, m - 1) \o NfkcOf(s[m]) \o NfkcFrom(s, m + 1)

nfkc(text) == NfkcFrom(text, 1)

\* str.replace(old, new), old non-empty: leftmost occurrences, left to right
RECURSIVE ReplaceFrom(_, _, _, _)
ReplaceFrom(s, i, old, new) ==
  LET js == { j \in i..Len(s) : PrefixAt(s, j, old) }
  IN IF js = {} THEN SubSeq(s, i, Len(s))
     ELSE SubSeq(s, i, MinOf(js) - 1) \o new
            \o ReplaceFrom(s, MinOf(js) + Len(old), old, new)

replace(text, old, new) == ReplaceFrom(text, 1, old, new)

\* Line 146 as the interpreter reads it.  The quote characters in the
\* source are ASCII apostrophes, so the first three open a triple-quoted
\* literal that runs to the next three: the line is
\*   text.replace(<the 15 characters  , "'").replace(  >, "'")
\* one replace call, of that 15-character string by an apostrophe.
Line146Old ==
  << ",", " ", "DQUOTE", "'", "DQUOTE", ")", ".",
     "r", "e", "p", "l", "a", "c", "e", "(" >>

Line146New == << "'" >>

normalize_unicode_and_case(text) ==
  IF text = << >> THEN << >>
  ELSE LET t1 == nfkc(text)
           t2 == lower(t1)
           \* line 146
           t3 == replace(t2, Line146Old, Line146New)
           \* line 147: both calls replace the ASCII double quote by itself
           t4 == replace(replace(t3, << "DQUOTE" >>, << "DQUOTE" >>),
                         << "DQUOTE" >>, << "DQUOTE" >>)
           \* line 148: em dash and en dash
           t5 == replace(replace(t4, << "EMDASH" >>, << "-" >>),
                         << "ENDASH" >>, << "-" >>)
       IN t5

(***************************************************************************)
(* normalize_sentence_boundaries (lines 153-175)                           *)
(***************************************************************************)
\* [.!?]\s{2,} : the last position of the match that starts at i, 0 if none
MarkSpaceEnd(s, i) ==
  IF s[i] \notin Terminals THEN 0
  ELSE LET e == FindNotIn(s, i + 1, Whitespace) - 1
       IN IF e >= i + 2 THEN e ELSE 0

\* re.sub(mark + r'\s{2,}', mark + ' ', text) for one mark (lines 168-170)
RECURSIVE SpaceAfterMark(_, _, _)
SpaceAfterMark(s, i, mark) ==
  LET js == { j \in i..Len(s) : s[j] = mark /\ MarkSpaceEnd(s, j) > 0 }
  IN IF js = {} THEN SubSeq(s, i, Len(s))
     ELSE SubSeq(s, i, MinOf(js) - 1) \o << mark, " " >>
            \o SpaceAfterMark(s, MarkSpaceEnd(s, MinOf(js)) + 1, mark)

StrayPunct == { ".", ",", "!", "?", ";", ":" }

\* \s+([.,!?;:])+\s+ : the last position of the match that starts at i, 0 if
\* none (the three runs are over disjoint classes, so each is maximal)
StrayEnd(s, i) ==
  IF s[i] \notin Whitespace THEN 0
  ELSE LET a == FindNotIn(s, i, Whitespace)
           b == FindNotIn(s, a, StrayPunct)
           c == FindNotIn(s, b, Whitespace)
       IN IF b > a /\ c > b THEN c - 1 ELSE 0

\* re.sub(r'\s+([.,!?;:])+\s+', ' ', text) (line 171)
RECURSIVE RemoveStray(_, _)
RemoveStray(s, i) ==
  LET m == NextMatch(s, i, StrayEnd)
  IN IF m = 0 THEN SubSeq(s, i, Len(s))
     ELSE SubSeq(s, i, m - 1) \o << " " >> \o RemoveStray(s, StrayEnd(s, m) + 1)

\* re.sub(r'^\s*([.,!?;:])+\s+', '', text) (line 172)
RemoveLeadingPunct(s) ==
  LET a == FindNotIn(s, 1, Whitespace)
      b == FindNotIn(s, a, StrayPunct)
      c == FindNotIn(s, b, Whitespace)
  IN IF b > a /\ c > b THEN SubSeq(s, c, Len(s)) ELSE s

\* ([.!?])([a-z]) : the last position of the match that starts at i, 0 if none
MarkLetterEnd(s, i) ==
  IF s[i] \in Terminals /\ i < Len(s) /\ s[i + 1] \in AsciiLower THEN i + 1 ELSE 0

\* re.sub(r'([.!?])([a-z])', r'\1 \2', text) (line 173)
RECURSIVE SplitSentences(_, _)
SplitSentences(s, i) ==
  LET m == NextMatch(s, i, MarkLetterEnd)
  IN IF m = 0 THEN SubSeq(s, i, Len(s))
     ELSE SubSeq(s, i, m - 1) \o << s[m], " ", s[m + 1] >> \o SplitSentences(s, m + 2)

normalize_sentence_boundaries(text) ==
  IF text = << >> THEN << >>
  ELSE LET t1 == SpaceAfterMark(text, 1, ".")
           t2 == SpaceAfterMark(t1, 1, "!")
           t3 == SpaceAfterMark(t2, 1, "?")
           t4 == RemoveStray(t3, 1)
           t5 == RemoveLeadingPunct(t4)
           t6 == SplitSentences(t5, 1)
       IN strip(t6)

(***************************************************************************)
(* normalize_numbers (lines 178-196)                                       *)
(***************************************************************************)
NumToken == << "<", "N", "U", "M", ">" >>

\* the regex assertion \b between positions i-1 and i
WordBoundary(s, i) ==
  LET before == i - 1 >= 1 /\ i - 1 <= Len(s) /\ s[i - 1] \in WordChars
      after  == i >= 1 /\ i <= Len(s) /\ s[i] \in WordChars
  IN before # after

\* \b\d+\b : the last position of the match that starts at i, 0 if none.
\* \d+ takes the whole run of digits; a shorter run would end between two
\* digits, where there is no word boundary.
NumberEnd(s, i) ==
  IF s[i] \notin Digits THEN 0
  ELSE LET e == FindNotIn(s, i, Digits) - 1
       IN IF WordBoundary(s, i) /\ WordBoundary(s, e + 1) THEN e ELSE 0

RECURSIVE ReplaceNumbers(_, _)
ReplaceNumbers(s, i) ==
  LET m == NextMatch(s, i, NumberEnd)
  IN IF m = 0 THEN SubSeq(s, i, Len(s))
     ELSE SubSeq(s, i, m - 1) \o NumToken \o ReplaceNumbers(s, NumberEnd(s, m) + 1)

\* a replacement of every run of digits, word boundary or not (\d+)
RECURSIVE ReplaceDigitRuns(_, _)
ReplaceDigitRuns(s, i) ==
  LET m == FindIn(s, i, Digits)
  IN IF m > Len(s) THEN SubSeq(s, i, Len(s))
     ELSE SubSeq(s, i, m - 1) \o NumToken
            \o ReplaceDigitRuns(s, FindNotIn(s, m, Digits))

NumbersEveryDigitRun(text, enabled) ==
  IF ~enabled \/ text = << >> THEN text
  ELSE ReplaceDigitRuns(text, 1)

normalize_numbers(text, enabled) ==
  IF ~enabled \/ text = << >> THEN text
  ELSE ReplaceNumbers(text, 1)

(***************************************************************************)
(* Raw records.  A value of a raw record's key is absent, null, a str or   *)
(* an int (the value of an unexpected type); an element of the batch is a  *)
(* mapping ("dict") or not one ("none").  Keys other than the five below   *)
(* (source_name, source_id, link, url, category, pubDate, pub_date) feed   *)
(* only the fields source, url, domain, category and pub_datetime (lines   *)
(* 44-83), which no later stage reads and whose computation cannot fault   *)
(* (str() and inner try/except); the model leaves those fields out.        *)
(***************************************************************************)
Absent == [ kind |-> "absent", s |-> << >>, n |-> 0 ]

Null == [ kind |-> "null", s |-> << >>, n |-> 0 ]

StrVal(t) == [ kind |-> "str", s |-> t, n |-> 0 ]

IntVal(k) == [ kind |-> "int", s |-> << >>, n |-> k ]

\* bool(v)
Truthy(v) ==
  \/ v.kind = "str" /\ v.s # << >>
  \/ v.kind = "int" /\ v.n # 0

\* dict.get(key): None when the key is absent
Get(v) == IF v.kind = "absent" THEN Null ELSE v

\* dict.get(key, ''): the empty str when the key is absent
GetOrEmpty(v) == IF v.kind = "absent" THEN StrVal(<< >>) ELSE v

\* the Python expression "a or b"
Or(a, b) == IF Truthy(a) THEN a ELSE b

DigitSeq == << "0","1","2","3","4","5","6","7","8","9" >>

\* str(n) for an int n >= 0
RECURSIVE Decimal(_)
Decimal(n) ==
  IF n < 10 THEN << DigitSeq[n + 1] >>
  ELSE Decimal(n \div 10) \o << DigitSeq[(n % 10) + 1] >>

\* str(v) for a str or an int
PyStr(v) == IF v.kind = "str" THEN v.s ELSE Decimal(v.n)

IdWidth == 4

\* f"article_{article_idx:04d}" (line 31)
Placeholder(article_idx) ==
  LET d == Decimal(article_idx)
  IN << "a","r","t","i","c","l","e","_" >>
       \o [ i \in 1..(IdWidth - Len(d)) |-> "0" ] \o d

(***************************************************************************)
(* validate_and_enforce_schema (lines 17-101)                              *)
(***************************************************************************)
OnlyAvailable ==
  << "O","N","L","Y"," ","A","V","A","I","L","A","B","L","E" >>

MinBodyLen == 10

\* title (lines 33-34): None, or the trimmed str() of title / headline
NoTitle == [ none |-> TRUE, s |-> << >> ]

TitleOf(article) ==
  LET t == Or(Get(article.title), GetOrEmpty(article.headline))
  IN IF Truthy(t) THEN [ none |-> FALSE, s |-> strip(PyStr(t)) ] ELSE NoTitle

\* description (line 36)
DescriptionOf(article) == Or(GetOrEmpty(article.description), StrVal(<< >>))

\* content before the paywall test (line 37)
ContentOf(article) == Or(GetOrEmpty(article.content), StrVal(<< >>))

\* An exception inside the try block: the element is no mapping (.get), or
\* description or content is a truthy non-str (.upper() on line 38,
\* .strip() on line 42).
Faults(article) ==
  \/ article.shape # "dict"
  \/ DescriptionOf(article).kind # "str"
  \/ ContentOf(article).kind # "str"

\* ' '.join(parts)
RECURSIVE JoinSpace(_)
JoinSpace(parts) ==
  IF parts = << >> THEN << >>
  ELSE IF Len(parts) = 1 THEN parts[1]
  ELSE parts[1] \o << " " >> \o JoinSpace(Tail(parts))

\* a body_text assembled without the paywall test of lines 38-39
BodyKeepsPaywall(article) ==
  LET parts == << TitleOf(article).s, DescriptionOf(article).s, ContentOf(article).s >>
  IN JoinSpace(SelectSeq(parts, LAMBDA part : part # << >> /\ strip(part) # << >>))

\* body_text (lines 38-42): the parts that are non-empty after trimming,
\* joined as they are
BodyOf(article) ==
  LET description == DescriptionOf(article).s
      c0 == ContentOf(article).s
      content == IF c0 # << >> /\ Contains(upper(c0), OnlyAvailable)
                 THEN << >> ELSE c0
      parts == << TitleOf(article).s, description, content >>
  IN JoinSpace(SelectSeq(parts, LAMBDA part : part # << >> /\ strip(part) # << >>))

None == [ ok |-> FALSE ]

Some(a) == [ ok |-> TRUE, article |-> a ]

\* a validator that also rejects a body_text of exactly MinBodyLen characters
ValidateOffByOne(article, article_idx) ==
  IF Faults(article) THEN None
  ELSE LET article_id == Or(Get(article.article_id), StrVal(Placeholder(article_idx)))
           body_text == BodyOf(article)
       IN IF body_text = << >> \/ PyLen(strip(body_text)) <= MinBodyLen THEN None
          ELSE Some([ article_id |-> PyStr(article_id),
                      title      |-> TitleOf(article),
                      body_text  |-> body_text ])

\* A record is a mapping from its keys: the validator's record has the
\* keys article_id, title and body_text; the key flags (the '_flags' of the
\* code) and the three counts exist once a later stage has set them.
validate_and_enforce_schema(article, article_idx) ==
  IF Faults(article) THEN None
  ELSE LET article_id == Or(Get(article.article_id), StrVal(Placeholder(article_idx)))
           body_text == BodyOf(article)
       IN IF body_text = << >> \/ PyLen(strip(body_text)) < MinBodyLen THEN None
          ELSE Some([ article_id |-> PyStr(article_id),
                      title      |-> TitleOf(article),
                      body_text  |-> body_text ])

(***************************************************************************)
(* perform_linguistic_checks (lines 199-229)                               *)
(***************************************************************************)
VeryShortLen == 100

\* article.get('body_text', '')
BodyTextOf(article) ==
  IF "body_text" \in DOMAIN article THEN article.body_text ELSE << >>

\* article.get('_flags', [])
FlagsOf(article) == IF "flags" \in DOMAIN article THEN article.flags ELSE << >>

\* article['_flags'] = article.get('_flags', []) + [flag]
AddFlag(article, flag) ==
  [ k \in DOMAIN article \cup { "flags" } |->
      IF k = "flags" THEN Append(FlagsOf(article), flag) ELSE article[k] ]

\* a gate without the test for an empty body_text
GateKeepsEmpty(article, min_length, max_length) ==
  LET body_text == BodyTextOf(article)
      char_count == PyLen(body_text)
  IN IF char_count < min_length THEN None
     ELSE LET a1 == IF char_count > max_length
                    THEN AddFlag(article, "extremely_long") ELSE article
              a2 == IF char_count < VeryShortLen
                    THEN AddFlag(a1, "very_short") ELSE a1
          IN Some(a2)

\* a gate that also rejects a body_text of exactly min_length characters
GateOffByOne(article, min_length, max_length) ==
  LET body_text == BodyTextOf(article)
      char_count == PyLen(body_text)
  IN IF body_text = << >> THEN None
     ELSE IF char_count <= min_length THEN None
     ELSE LET a1 == IF char_count > max_length
                    THEN AddFlag(article, "extremely_long") ELSE article
              a2 == IF char_count < VeryShortLen
                    THEN AddFlag(a1, "very_short") ELSE a1
          IN Some(a2)

perform_linguistic_checks(article, min_length, max_length) ==
  LET body_text == BodyTextOf(article)
      char_count == PyLen(body_text)
  IN IF body_text = << >> THEN None
     ELSE IF char_count < min_length THEN None
     ELSE LET a1 == IF char_count > max_length
                    THEN AddFlag(article, "extremely_long") ELSE article
              a2 == IF char_count < VeryShortLen
                    THEN AddFlag(a1, "very_short") ELSE a1
          IN Some(a2)

(***************************************************************************)
(* add_derived_statistics (lines 232-256)                                  *)
(***************************************************************************)
\* len([s for s in re.split(r'[.!?]+', body_text) if s.strip()])
RECURSIVE CountSentences(_, _)
CountSentences(s, i) ==
  LET a == FindNotIn(s, i, Terminals)
      b == FindIn(s, a, Terminals)
  IN IF a > Len(s) THEN 0
     ELSE (IF strip(SubSeq(s, a, b - 1)) # << >> THEN 1 ELSE 0) + CountSentences(s, b)

StatKeys == { "character_count", "token_count", "sentence_count" }

\* an annotator that counts every segment of the split, the empty ones too
RECURSIVE CountSegments(_, _)
CountSegments(s, i) ==
  LET b == FindIn(s, i, Terminals)
  IN IF b > Len(s) THEN 1 ELSE 1 + CountSegments(s, FindNotIn(s, b, Terminals))

StatsCountEmptySegments(article) ==
  LET body_text == BodyTextOf(article)
  IN [ k \in DOMAIN article \cup StatKeys |->
         CASE k = "character_count" -> PyLen(body_text)
           [] k = "token_count"     -> CountTokens(body_text, 1)
           [] k = "sentence_count"  -> CountSegments(body_text, 1)
           [] OTHER                 -> article[k] ]

add_derived_statistics(article) ==
  LET body_text == BodyTextOf(article)
  IN [ k \in DOMAIN article \cup StatKeys |->
         CASE k = "character_count" -> PyLen(body_text)
           [] k = "token_count"     -> CountTokens(body_text, 1)
           [] k = "sentence_count"  -> CountSentences(body_text, 1)
           [] OTHER                 -> article[k] ]

(***************************************************************************)
(* The stages of the loop body of process_articles (lines 280-300) on the  *)
(* record the validator returned.  The local variable title is             *)
(* validated['title'] or ''; it is rewritten only when it is non-empty.    *)
(***************************************************************************)
\* lines 283-288
SanitizeStage(v) ==
  [ v EXCEPT !.body_text = sanitize_text(@),
             !.title = IF @.s # << >>
                       THEN [ none |-> FALSE, s |-> sanitize_text(@.s) ] ELSE @ ]

\* html.unescape raises inside one of the two calls of lines 283 and 285
SanitizeRaises(v) ==
  \/ UnescapeRaises(v.body_text)
  \/ v.title.s # << >> /\ UnescapeRaises(v.title.s)

\* lines 290-294
UnicodeStage(v) ==
  [ v EXCEPT !.body_text = normalize_unicode_and_case(@),
             !.title = IF @.s # << >>
                       THEN [ none |-> FALSE, s |-> normalize_unicode_and_case(@.s) ]
                       ELSE @ ]

\* lines 296-297
SentenceStage(v) == [ v EXCEPT !.body_text = normalize_sentence_boundaries(@) ]

\* lines 299-300
NumberStage(v, normalize_numbers_flag) ==
  [ v EXCEPT !.body_text = normalize_numbers(@, normalize_numbers_flag) ]

\* stages 2 to 5 in sequence
Normalized(v, normalize_numbers_flag) ==
  NumberStage(SentenceStage(UnicodeStage(SanitizeStage(v))), normalize_numbers_flag)

\* One pass of the loop body (lines 276-307) that does not raise: None for
\* a record skipped by one of the two "continue", else the record appended.
LoopBody(article, article_idx, c) ==
  LET validated == validate_and_enforce_schema(article, article_idx)
  IN IF ~validated.ok THEN None
     ELSE LET checked == perform_linguistic_checks(
                           Normalized(validated.article, c.normalize_numbers_flag),
                           c.min_length, c.max_length)
          IN IF ~checked.ok THEN None
             ELSE Some(add_derived_statistics(checked.article))

\* a driver that puts each survivor in front of the earlier ones
ListPrepend(list, x) == << x >> \o list

\* cleaned_articles.append(with_stats) (line 307)
ListAppend(list, x) == Append(list, x)

\* The list process_articles returns for a batch, when no call raises
\* (lines 273-309).
RECURSIVE ProcessFrom(_, _, _)
ProcessFrom(batch, i, c) ==
  IF i > Len(batch) THEN << >>
  ELSE LET r == LoopBody(batch[i], i - 1, c)
       IN IF r.ok THEN ListAppend(<< >>, r.article) \o ProcessFrom(batch, i + 1, c)
          ELSE ProcessFrom(batch, i + 1, c)

process_articles(batch, c) == ProcessFrom(batch, 1, c)

(***************************************************************************)
(* The inputs of the model                                                 *)
(***************************************************************************)
\* Scenario 1 of the specification
TBigWin ==
  << "B", "i", "g", " ", "<", "b", ">", "W", "i", "n", "<", "/", "b", ">",
     "!", "!", "!" >>

TSeeUrl ==
  << "S", "e", "e", " ", "h", "t", "t", "p", ":", "/", "/", "x", ".", "c",
     "o", " ", "n", "o", "w" >>

TPaywall ==
  << "O", "N", "L", "Y", " ", "A", "V", "A", "I", "L", "A", "B", "L", "E",
     " ", "i", "n", " ", "p", "a", "i", "d", " ", "p", "l", "a", "n" >>

\* Scenario 5
TLost ==
  << "l", "o", "s", "t", " ", "3", " ", "o", "f", " ", "1", "0", " ", "m",
     "a", "t", "c", "h", "e", "s" >>

\* an upstream id that has the form of a placeholder
TId1 ==
  << "a", "r", "t", "i", "c", "l", "e", "_", "0", "0", "0", "1" >>

TVisit ==
  << "V", "i", "s", "i", "t", " ", "w", "w", "w", "!", ".", "1", "x", " ",
     "n", "o", "w" >>

TSplitUrl ==
  << "s", "e", "e", " ", "h", "t", "t", "NUL", "p", ":", "/", "/", "a",
     "b" >>

\* Scenario 3: 8 characters
TBreaking ==
  << "B", "r", "e", "a", "k", "i", "n", "g" >>

\* MinBodyLen characters, one fewer once sanitized
TBreakingNews ==
  << "B", "r", "e", "a", "k", "i", "n", "g", "!", "!" >>

TPara ==
  << "<", "p", ">" >>

TBreaks ==
  << "<", "b", "r", "/", ">", "<", "b", "r", "/", ">" >>

TReview ==
  << "Y", "e", "a", "r", " ", "i", "n", " ", "r", "e", "v", "i", "e", "w" >>

THello ==
  << "H", "e", "l", "l", "o", " ", "w", "o", "r", "l", "d" >>

TMore ==
  << "m", "o", "r", "e", " ", HugeRef >>

\* ends with two spaces
TQuoted ==
  << "LDQUO", "Q", "u", "o", "t", "e", "d", "RDQUO", " ", "EMDASH", " ",
     "i", "t", "RSQUO", "s", " ", "h", "e", "r", "e", " ", " " >>

TLorem ==
  << "l", "o", "r", "e", "m", "-", "i", "p", "s", "u", "m", "-" >>

TPadded ==
  << " ", " ", "P", "a", "d", "d", "e", "d", " ", "t", "i", "t", "l", "e",
     " ", " " >>


RECURSIVE Repeat(_, _)
Repeat(t, k) == IF k = 0 THEN << >> ELSE t \o Repeat(t, k - 1)

\* more than VeryShortLen characters
TLong == Repeat(TLorem, 9)

Dict(id, title, headline, description, content) ==
  [ shape |-> "dict", article_id |-> id, title |-> title, headline |-> headline,
    description |-> description, content |-> content ]

\* an element of the batch that is no mapping (a JSON null)
NotADict ==
  [ shape |-> "none", article_id |-> Absent, title |-> Absent, headline |-> Absent,
    description |-> Absent, content |-> Absent ]

RScenario1 == Dict(Absent, StrVal(TBigWin), Absent, StrVal(TSeeUrl), StrVal(TPaywall))

RLost == Dict(StrVal(TId1), StrVal(TLost), Absent, Absent, Null)

RVisit == Dict(Absent, Null, StrVal(TVisit), StrVal(TSplitUrl), Absent)

RBreaking == Dict(Absent, StrVal(TBreaking), Absent, Absent, Absent)

RTen == Dict(Absent, Absent, StrVal(TBreakingNews), Absent, Absent)

RMarkup == Dict(Absent, StrVal(TPara), Absent, StrVal(TBreaks), IntVal(0))

RIntFields == Dict(IntVal(7), IntVal(2024), Absent, StrVal(TReview), Absent)

RBadDescription == Dict(Absent, StrVal(THello), Absent, IntVal(5), Absent)

RHugeRef == Dict(Absent, StrVal(THello), Absent, Absent, StrVal(TMore))

RQuoted == Dict(Absent, StrVal(TPadded), Absent, StrVal(TQuoted), StrVal(<< >>))

RLong == Dict(Absent, Absent, Absent, StrVal(TLong), Absent)

Records ==
  { RScenario1, RLost, RVisit, RBreaking, RTen, RMarkup, RIntFields,
    RBadDescription, RHugeRef, RQuoted, RLong, NotADict }

DefaultMinLength == 50

DefaultMaxLength == 100000

Config(flag, min_length, max_length) ==
  [ normalize_numbers_flag |-> flag, min_length |-> min_length,
    max_length |-> max_length ]

\* the defaults of process_articles, and two other configurations
Configs ==
  { Config(FALSE, DefaultMinLength, DefaultMaxLength),
    Config(TRUE, 0, 15),
    Config(FALSE, 16, 30) }

MaxBatch == 2

Batches == UNION { [ 1..n -> Records ] : n \in 0..MaxBatch }

(***************************************************************************)
(* process_articles (lines 259-309) as a state machine: one step per stage *)
(* of the loop body.                                                       *)
(***************************************************************************)
VARIABLES
  raw_articles,      \* the batch passed to process_articles
  config,            \* normalize_numbers_flag, min_length, max_length
  idx,               \* the index of enumerate(raw_articles), from 0
  validated,         \* the record of the current pass of the loop body
  cleaned_articles,  \* the list that is returned
  pc,                \* the position in process_articles
  outcomes,          \* for each record passed: "invalid", "gated" or "kept"
  arg,               \* the argument of a function applied on its own
  res,               \* its results
  upc                \* the position of that application

vars ==
  << raw_articles, config, idx, validated, cleaned_articles, pc, outcomes,
     arg, res, upc >>

\* the value of validated outside the loop body
NoArticle == [ article_id |-> << >>, title |-> NoTitle, body_text |-> << >> ]

NoUnit == /\ arg = << >> /\ res = << >> /\ upc = "off"

Init ==
  /\ raw_articles \in Batches
  /\ config \in Configs
  /\ idx = 0
  /\ validated = NoArticle
  /\ cleaned_articles = << >>
  /\ pc = "loop"
  /\ outcomes = << >>
  /\ NoUnit

\* line 276-278: the validator rejects the record, "continue"
ValidateReject ==
  /\ pc = "loop"
  /\ idx < Len(raw_articles)
  /\ ~validate_and_enforce_schema(raw_articles[idx + 1], idx).ok
  /\ idx' = idx + 1
  /\ outcomes' = Append(outcomes, "invalid")
  /\ UNCHANGED << raw_articles, config, validated, cleaned_articles, pc, arg, res, upc >>

\* line 276-281: the validator returns a record
ValidateAccept ==
  /\ pc = "loop"
  /\ idx < Len(raw_articles)
  /\ validate_and_enforce_schema(raw_articles[idx + 1], idx).ok
  /\ validated' = validate_and_enforce_schema(raw_articles[idx + 1], idx).article
  /\ pc' = "sanitize"
  /\ UNCHANGED << raw_articles, config, idx, cleaned_articles, outcomes, arg, res, upc >>

\* lines 283-288
Sanitize ==
  /\ pc = "sanitize"
  /\ validated' = SanitizeStage(validated)
  /\ pc' = "unicode"
  /\ UNCHANGED << raw_articles, config, idx, cleaned_articles, outcomes, arg, res, upc >>

\* lines 283-285 under an interpreter that limits the digits of int(str):
\* the ValueError of html.unescape leaves process_articles
SanitizeRaise ==
  /\ pc = "sanitize"
  /\ SanitizeRaises(validated)
  /\ pc' = "raised"
  /\ UNCHANGED << raw_articles, config, idx, validated, cleaned_articles, outcomes,
                  arg, res, upc >>

\* lines 290-294
Unicode ==
  /\ pc = "unicode"
  /\ validated' = UnicodeStage(validated)
  /\ pc' = "sentences"
  /\ UNCHANGED << raw_articles, config, idx, cleaned_articles, outcomes, arg, res, upc >>

\* lines 296-297
Sentences ==
  /\ pc = "sentences"
  /\ validated' = SentenceStage(validated)
  /\ pc' = "numbers"
  /\ UNCHANGED << raw_articles, config, idx, cleaned_articles, outcomes, arg, res, upc >>

\* lines 299-300
Numbers ==
  /\ pc = "numbers"
  /\ validated' = NumberStage(validated, config.normalize_numbers_flag)
  /\ pc' = "gate"
  /\ UNCHANGED << raw_articles, config, idx, cleaned_articles, outcomes, arg, res, upc >>

\* lines 302-304: the gate rejects the record, "continue"
GateReject ==
  /\ pc = "gate"
  /\ ~perform_linguistic_checks(validated, config.min_length, config.max_length).ok
  /\ idx' = idx + 1
  /\ validated' = NoArticle
  /\ pc' = "loop"
  /\ outcomes' = Append(outcomes, "gated")
  /\ UNCHANGED << raw_articles, config, cleaned_articles, arg, res, upc >>

\* line 302: the gate returns the record
GatePass ==
  /\ pc = "gate"
  /\ perform_linguistic_checks(validated, config.min_length, config.max_length).ok
  /\ validated' =
       perform_linguistic_checks(validated, config.min_length, config.max_length).article
  /\ pc' = "stats"
  /\ UNCHANGED << raw_articles, config, idx, cleaned_articles, outcomes, arg, res, upc >>

\* lines 306-307
Stats ==
  /\ pc = "stats"
  /\ cleaned_articles' = ListAppend(cleaned_articles, add_derived_statistics(validated))
  /\ idx' = idx + 1
  /\ validated' = NoArticle
  /\ pc' = "loop"
  /\ outcomes' = Append(outcomes, "kept")
  /\ UNCHANGED << raw_articles, config, arg, res, upc >>

\* line 309
Return ==
  /\ pc = "loop"
  /\ idx = Len(raw_articles)
  /\ pc' = "returned"
  /\ UNCHANGED << raw_articles, config, idx, validated, cleaned_articles, outcomes,
                  arg, res, upc >>

Next ==
  \/ ValidateReject
  \/ ValidateAccept
  \/ Sanitize
  \/ SanitizeRaise
  \/ Unicode
  \/ Sentences
  \/ Numbers
  \/ GateReject
  \/ GatePass
  \/ Stats
  \/ Return

Spec == Init /\ [][Next]_vars

(***************************************************************************)
(* The functions applied on their own.  process_articles is not running:   *)
(* its variables keep the values of Idle.  The texts are concatenations of *)
(* at most MaxFrags fragments.                                             *)
(***************************************************************************)
Idle ==
  /\ raw_articles = << >>
  /\ config = Config(FALSE, DefaultMinLength, DefaultMaxLength)
  /\ idx = 0
  /\ validated = NoArticle
  /\ cleaned_articles = << >>
  /\ pc = "idle"
  /\ outcomes = << >>

pipeline ==
  << raw_articles, config, idx, validated, cleaned_articles, pc, outcomes >>

MaxFrags == 4

RECURSIVE Concat(_)
Concat(frags) == IF frags = << >> THEN << >> ELSE Head(frags) \o Concat(Tail(frags))

FragTexts(F) == { Concat(f) : f \in UNION { [ 1..k -> F ] : k \in 0..MaxFrags } }

(***************************************************************************)
(* sanitize_text (lines 104-126), one step per line                        *)
(***************************************************************************)
SanitizeFrags ==
  { << "w", "w", "w" >>, << "h", "t", "t" >>, << "p", ":", "/", "/" >>,
    << "!" >>, << "." >>, << "x" >>, << " " >>, << "NUL" >>,
    << "<" >>, << ">" >>, << "&", "l", "t", ";" >> }

InitSanitize ==
  /\ Idle
  /\ arg \in FragTexts(SanitizeFrags)
  /\ res = << >>
  /\ upc = "call"

\* lines 116-117
SanitizeEmpty ==
  /\ upc = "call"
  /\ arg = << >>
  /\ res' = << >>
  /\ upc' = "done"
  /\ UNCHANGED << pipeline, arg >>

\* line 119
Unescape ==
  /\ upc = "call"
  /\ arg # << >>
  /\ res' = unescape(arg)
  /\ upc' = "tags"
  /\ UNCHANGED << pipeline, arg >>

\* line 120
StripTags ==
  /\ upc = "tags"
  /\ res' = RemoveTags(res, 1)
  /\ upc' = "urls"
  /\ UNCHANGED << pipeline, arg >>

\* line 121
StripUrls ==
  /\ upc = "urls"
  /\ res' = RemoveUrls(res, 1)
  /\ upc' = "printable"
  /\ UNCHANGED << pipeline, arg >>

\* line 122
DropNonPrintable ==
  /\ upc = "printable"
  /\ res' = KeepPrintable(res)
  /\ upc' = "spaces"
  /\ UNCHANGED << pipeline, arg >>

\* line 123
CollapseWhitespace ==
  /\ upc = "spaces"
  /\ res' = CollapseSpace(res, 1)
  /\ upc' = "punct"
  /\ UNCHANGED << pipeline, arg >>

\* line 124
CollapsePunctuation ==
  /\ upc = "punct"
  /\ res' = CollapsePunct(res, 1)
  /\ upc' = "strip"
  /\ UNCHANGED << pipeline, arg >>

\* line 126
Trim ==
  /\ upc = "strip"
  /\ res' = strip(res)
  /\ upc' = "done"
  /\ UNCHANGED << pipeline, arg >>

NextSanitize ==
  \/ SanitizeEmpty
  \/ Unescape
  \/ StripTags
  \/ StripUrls
  \/ DropNonPrintable
  \/ CollapseWhitespace
  \/ CollapsePunctuation
  \/ Trim

SpecSanitize == InitSanitize /\ [][NextSanitize]_vars

(***************************************************************************)
(* normalize_unicode_and_case (lines 129-150), applied to a text and then  *)
(* to its own result                                                       *)
(***************************************************************************)
\* the three characters before, and the eleven after, the apostrophe of
\* Line146Old
Line146Head == SubSeq(Line146Old, 1, 3)

Line146Tail == SubSeq(Line146Old, 5, 15)

UnicodeFrags ==
  { Line146Head, Line146Tail, Line146Old, << "LSQUO" >>, << "RDQUO" >>,
    << "EMDASH" >>, << "K" >>, << "LIG_FI" >>, << "a" >> }

InitUnicode ==
  /\ Idle
  /\ arg \in FragTexts(UnicodeFrags)
  /\ res = << >>
  /\ upc = "call"

NormalizeOnce ==
  /\ upc = "call"
  /\ res' = << normalize_unicode_and_case(arg) >>
  /\ upc' = "once"
  /\ UNCHANGED << pipeline, arg >>

NormalizeTwice ==
  /\ upc = "once"
  /\ res' = Append(res, normalize_unicode_and_case(res[1]))
  /\ upc' = "twice"
  /\ UNCHANGED << pipeline, arg >>

NextUnicode ==
  \/ NormalizeOnce
  \/ NormalizeTwice

SpecUnicode == InitUnicode /\ [][NextUnicode]_vars

(***************************************************************************)
(* perform_linguistic_checks (lines 199-229) applied to a record with a    *)
(* body_text of 0 to MaxBodyLen characters                                 *)
(***************************************************************************)
MaxBodyLen == 101

GateTexts == { [ i \in 1..n |-> c ] : n \in 0..MaxBodyLen, c \in { "a", " " } }

\* records without flags, with flags set by an earlier caller, and one
\* without the key body_text
GateArticles ==
  { [ article_id |-> TId1, title |-> NoTitle, body_text |-> t ] : t \in GateTexts }
    \cup { [ article_id |-> TId1, title |-> NoTitle, body_text |-> t,
             flags |-> << "upstream" >> ] : t \in GateTexts }
    \cup { [ article_id |-> TId1, title |-> NoTitle ] }

GateMinLengths == { 0, DefaultMinLength, VeryShortLen, VeryShortLen + 1 }

GateMaxLengths == { 15, VeryShortLen, DefaultMaxLength }

InitGate ==
  /\ Idle
  /\ arg \in [ article : GateArticles, min_length : GateMinLengths,
               max_length : GateMaxLengths ]
  /\ res = << >>
  /\ upc = "call"

\* lines 215-221: None
GateNone ==
  /\ upc = "call"
  /\ ~perform_linguistic_checks(arg.article, arg.min_length, arg.max_length).ok
  /\ res' = None
  /\ upc' = "done"
  /\ UNCHANGED << pipeline, arg >>

\* lines 223-229: the record
GateSome ==
  /\ upc = "call"
  /\ perform_linguistic_checks(arg.article, arg.min_length, arg.max_length).ok
  /\ res' = perform_linguistic_checks(arg.article, arg.min_length, arg.max_length)
  /\ upc' = "done"
  /\ UNCHANGED << pipeline, arg >>

NextGate ==
  \/ GateNone
  \/ GateSome

SpecGate == InitGate /\ [][NextGate]_vars

(***************************************************************************)
(* normalize_numbers (lines 178-196) as process_articles applies it (lines *)
(* 299-300) to a record with a title and a body_text                       *)
(***************************************************************************)
NumberFrags ==
  { << "3" >>, << "1", "0" >>, << "x" >>, << " " >>, << "_" >>, << "-" >>,
    << "EACUTE" >> }

\* the texts of the fragments, and the text of Scenario 5
NumberTexts == FragTexts(NumberFrags) \cup { TLost }

InitNumbers ==
  /\ Idle
  /\ arg \in [ v : [ article_id : { TId1 },
                     title : { NoTitle, [ none |-> FALSE, s |-> TLost ] },
                     body_text : NumberTexts ],
               flag : BOOLEAN ]
  /\ res = << >>
  /\ upc = "call"

\* lines 191-192: the text is returned as it is
NumbersOff ==
  /\ upc = "call"
  /\ ~arg.flag \/ arg.v.body_text = << >>
  /\ res' = NumberStage(arg.v, arg.flag)
  /\ upc' = "done"
  /\ UNCHANGED << pipeline, arg >>

\* lines 194-196
NumbersOn ==
  /\ upc = "call"
  /\ arg.flag /\ arg.v.body_text # << >>
  /\ res' = NumberStage(arg.v, arg.flag)
  /\ upc' = "done"
  /\ UNCHANGED << pipeline, arg >>

NextNumbers ==
  \/ NumbersOff
  \/ NumbersOn

SpecNumbers == InitNumbers /\ [][NextNumbers]_vars

(***************************************************************************)
(* Properties of process_articles, checked under Spec                      *)
(***************************************************************************)
\* some substring matches <[^>]+>
HasTag(text) == \E i \in DOMAIN text : TagEnd(text, i) > 0

\* some substring matches https?://\S+ or www\.\S+, letter case ignored
HasUrl(text) == \E i \in DOMAIN text : UrlEnd(text, i) > 0

CurlyQuotes == { "LSQUO", "RSQUO", "LDQUO", "RDQUO" }

Dashes == { "EMDASH", "ENDASH" }

HasAny(text, S) == \E i \in DOMAIN text : text[i] \in S

RemoveAt(seq, i) == SubSeq(seq, 1, i - 1) \o SubSeq(seq, i + 1, Len(seq))

\* the results of the loop body on the first n records of a batch
RECURSIVE LoopBodies(_, _, _)
LoopBodies(batch, n, c) ==
  IF n = 0 THEN << >>
  ELSE Append(LoopBodies(batch, n - 1, c), LoopBody(batch[n], n - 1, c))

\* the records of the batch the loop has passed
Passed == 1..idx

\* C1: the list is never longer than the input, and the list returned is
\* the results of the loop body on a strictly increasing choice of the
\* records of the input: each record gives at most one output record, in
\* input order, and a record the loop body rejects gives none.
C1_OrderPreservingSubsequence ==
  /\ Len(cleaned_articles) <= Len(raw_articles)
  /\ pc = "returned" =>
       LET out == LoopBodies(raw_articles, idx, config)
       IN \E f \in [ DOMAIN cleaned_articles -> Passed ] :
            /\ \A j, k \in DOMAIN f : j < k => f[j] < f[k]
            /\ \A k \in DOMAIN f : out[f[k]] = Some(cleaned_articles[k])
            /\ \A i \in Passed : ~out[i].ok => \A k \in DOMAIN f : f[k] # i

\* C1 witness: the call has returned two different survivors
C1_Witness ==
  /\ pc = "returned"
  /\ Len(cleaned_articles) = 2
  /\ cleaned_articles[1].body_text # cleaned_articles[2].body_text

\* C2: process_articles never raises; a record that faults inside the
\* validator is rejected and the loop goes on to pass every record.
C2_NeverRaises ==
  /\ pc # "raised"
  /\ \A i \in DOMAIN outcomes : Faults(raw_articles[i]) => outcomes[i] = "invalid"
  /\ pc = "returned" => Len(outcomes) = Len(raw_articles)

\* C4: every survivor's body_text is non-empty, holds no HTML tag, no URL,
\* no curly quote and no em or en dash.
C4_SurvivorsNormalized ==
  \A k \in DOMAIN cleaned_articles :
    LET body_text == cleaned_articles[k].body_text
    IN /\ body_text # << >>
       /\ ~HasTag(body_text)
       /\ ~HasUrl(body_text)
       /\ ~HasAny(body_text, CurlyQuotes \cup Dashes)

\* the validator assembles for the record a body_text that has, trimmed,
\* fewer than 10 characters
TooShort(article) ==
  ~Faults(article) /\ PyLen(strip(BodyOf(article))) < 10

\* C7 as stated: ..., and a batch with a too-short record has one survivor
\* fewer than the same batch without the record.
C7_OneSurvivorFewer ==
  /\ pc = "loop" /\ outcomes # << >> =>
       LET i == Len(outcomes)
       IN (outcomes[i] = "invalid")
            <=> (Faults(raw_articles[i]) \/ TooShort(raw_articles[i]))
  /\ pc = "sanitize" =>
       /\ ~Faults(raw_articles[idx + 1]) /\ ~TooShort(raw_articles[idx + 1])
       /\ validated.article_id # << >> /\ PyLen(validated.body_text) >= 10
  /\ pc = "returned" =>
       \A i \in DOMAIN raw_articles :
         TooShort(raw_articles[i]) =>
           Len(cleaned_articles)
             = Len(process_articles(RemoveAt(raw_articles, i), config)) - 1

\* C7 amended: the validator rejects a record exactly when it faults or the
\* assembled body_text has, trimmed, fewer than 10 characters; a record it
\* returns has an article_id and a body_text of at least 10 characters; and
\* a batch with a too-short record has as many survivors as the same batch
\* without the record.
C7_TooShortAddsNoSurvivor ==
  /\ pc = "loop" /\ outcomes # << >> =>
       LET i == Len(outcomes)
       IN (outcomes[i] = "invalid")
            <=> (Faults(raw_articles[i]) \/ TooShort(raw_articles[i]))
  /\ pc = "sanitize" =>
       /\ ~Faults(raw_articles[idx + 1]) /\ ~TooShort(raw_articles[idx + 1])
       /\ validated.article_id # << >> /\ PyLen(validated.body_text) >= 10
  /\ pc = "returned" =>
       \A i \in DOMAIN raw_articles :
         TooShort(raw_articles[i]) =>
           Len(cleaned_articles) = Len(process_articles(RemoveAt(raw_articles, i), config))

\* C7 witness: the call has returned a survivor from a batch that holds a
\* too-short record
C7_Witness ==
  /\ pc = "returned"
  /\ Len(cleaned_articles) = 1
  /\ \E i \in DOMAIN raw_articles : TooShort(raw_articles[i])

\* C8: a record the validator returned has a non-empty body_text after each
\* of the stages 2 to 5, and the gate discards a record only when the text
\* the validator assembled is shorter than min_length.
C8_BodyNeverCleared ==
  /\ pc \in { "unicode", "sentences", "numbers", "gate" } => validated.body_text # << >>
  /\ pc = "loop" /\ outcomes # << >> =>
       LET i == Len(outcomes)
       IN outcomes[i] = "gated" =>
            PyLen(validate_and_enforce_schema(raw_articles[i], i - 1).article.body_text)
              < config.min_length

\* C8 amended: a record the validator returned has a non-empty body_text;
\* the sanitizer may clear it, but the stages 3 to 5 never clear a non-empty
\* body_text; the gate discards the record exactly when the normalized
\* body_text is empty or shorter than min_length, so that every survivor
\* has a non-empty body_text.
C8_OnlySanitizerClears ==
  [][ /\ pc' = "sanitize" => validated'.body_text # << >>
      /\ pc \in { "unicode", "sentences", "numbers" } /\ validated.body_text # << >>
           => validated'.body_text # << >>
      /\ pc = "gate" =>
           (pc' = "loop" /\ outcomes' = Append(outcomes, "gated"))
             <=> ( \/ validated.body_text = << >>
                   \/ PyLen(validated.body_text) < config.min_length )
      /\ \A k \in DOMAIN cleaned_articles' : cleaned_articles'[k].body_text # << >>
    ]_vars

\* C8 witness: with min_length 0, the gate has discarded a record whose
\* body_text the validator assembled and the sanitizer cleared
C8_Witness ==
  /\ pc = "loop"
  /\ config.min_length = 0
  /\ outcomes # << >>
  /\ outcomes[idx] = "gated"
  /\ validate_and_enforce_schema(raw_articles[idx], idx - 1).ok
  /\ sanitize_text(BodyOf(raw_articles[idx])) = << >>

\* C9: no two survivors carry the same article_id.
C9_UniqueIds ==
  \A j, k \in DOMAIN cleaned_articles :
    j # k => cleaned_articles[j].article_id # cleaned_articles[k].article_id

\* the positions of a text where a whitespace-delimited token starts
TokenStarts(text) ==
  { i \in DOMAIN text :
      text[i] \notin Whitespace /\ (i = 1 \/ text[i - 1] \in Whitespace) }

\* the positions where a segment between runs of '.', '!' and '?' starts
\* that holds a character other than whitespace
SegmentStarts(text) ==
  { i \in DOMAIN text :
      /\ text[i] \notin Terminals
      /\ i = 1 \/ text[i - 1] \in Terminals
      /\ \E j \in i..Len(text) :
           /\ text[j] \notin Whitespace
           /\ \A m \in i..j : text[m] \notin Terminals }

Scenario1Body ==
  << "b", "i", "g", " ", "w", "i", "n", "!", " ", "s", "e", "e", " ", "n", "o", "w" >>

\* C12 as stated: for the record of Scenario 1 the validator assembles
\* title and description without the content, the stages 2 to 5 leave
\* "big win! see now", and the record is emitted with token_count 3.
C12_Scenario1ThreeTokens ==
  /\ pc = "sanitize" /\ raw_articles[idx + 1] = RScenario1 =>
       validated.body_text = TBigWin \o << " " >> \o TSeeUrl
  /\ pc = "gate" /\ raw_articles[idx + 1] = RScenario1 =>
       validated.body_text = Scenario1Body
  /\ pc = "loop" /\ idx > 0 /\ raw_articles[idx] = RScenario1 /\ outcomes[idx] = "kept" =>
       LET a == cleaned_articles[Len(cleaned_articles)]
       IN a.body_text = Scenario1Body /\ a.token_count = 3

\* C12 amended: ..., and the record is emitted, when min_length is at most
\* the 16 characters of that text, with token_count 4.
C12_Scenario1FourTokens ==
  /\ pc = "sanitize" /\ raw_articles[idx + 1] = RScenario1 =>
       validated.body_text = TBigWin \o << " " >> \o TSeeUrl
  /\ pc = "gate" /\ raw_articles[idx + 1] = RScenario1 =>
       validated.body_text = Scenario1Body
  /\ pc = "loop" /\ idx > 0 /\ raw_articles[idx] = RScenario1 =>
       /\ outcomes[idx] = "kept" <=> config.min_length <= 16
       /\ outcomes[idx] = "kept" =>
            LET a == cleaned_articles[Len(cleaned_articles)]
            IN a.body_text = Scenario1Body /\ a.token_count = 4

\* C12 witness: the record of Scenario 1 has been emitted
C12_Witness ==
  /\ pc = "loop"
  /\ idx > 0
  /\ raw_articles[idx] = RScenario1
  /\ outcomes[idx] = "kept"
  /\ cleaned_articles[Len(cleaned_articles)].body_text = Scenario1Body

\* title (or headline), description and content of a raw record, each
\* trimmed, content empty when it holds the paywall marker in any case
TrimmedParts(article) ==
  LET content == ContentOf(article).s
  IN << TitleOf(article).s,
        strip(DescriptionOf(article).s),
        IF Contains(upper(content), OnlyAvailable) THEN << >> ELSE strip(content) >>

\* C14: the body_text of a record the validator accepts is the trimmed,
\* non-empty parts among title (or headline), description and content, in
\* that order, with one space between consecutive parts.
C14_TrimmedPartsJoined ==
  pc = "sanitize" =>
    validated.body_text
      = JoinSpace(SelectSeq(TrimmedParts(raw_articles[idx + 1]),
                            LAMBDA part : part # << >>))

\* C15: the outcome of the record at index i is the outcome of the loop
\* body on that record, that index and the configuration alone (rejected,
\* or emitted with those field values), whatever the other records of the
\* batch are: no call ends without the records it has emitted; and no step
\* changes the raw records.
C15_IndependentRecords ==
  [][ /\ raw_articles' = raw_articles
      /\ Len(outcomes') = Len(outcomes) + 1 =>
           LET i == Len(outcomes')
               r == LoopBody(raw_articles[i], i - 1, config)
           IN /\ (outcomes'[i] = "kept") <=> r.ok
              /\ r.ok => cleaned_articles'[Len(cleaned_articles')] = r.article
      /\ pc' = "raised" => \A i \in DOMAIN outcomes : outcomes[i] # "kept"
    ]_vars

(***************************************************************************)
(* Properties of sanitize_text, checked under SpecSanitize                 *)
(***************************************************************************)
\* C3: the text sanitize_text returns holds no HTML tag and no URL.
C3_NoTagNoUrl ==
  upc = "done" => ~HasTag(res) /\ ~HasUrl(res)

(***************************************************************************)
(* Properties of normalize_unicode_and_case, checked under SpecUnicode     *)
(***************************************************************************)
\* C5: normalize_unicode_and_case applied to its own result returns it
\* unchanged.
C5_Idempotent ==
  upc = "twice" => res[2] = res[1]

\* the ASCII character the claim gives for a curly quote or a dash
AsciiFor(c) ==
  CASE c \in { "LSQUO", "RSQUO" } -> "'"
    [] c \in { "LDQUO", "RDQUO" } -> "DQUOTE"
    [] c \in Dashes               -> "-"
    [] OTHER                      -> c

\* C6: the result is the NFKC form of the text in lower case with every
\* curly quote and every em or en dash replaced by its ASCII character, and
\* nothing else changed; a text of lower-case ASCII is returned as it is.
C6_QuotesDashesLower ==
  upc = "once" =>
    LET t == lower(nfkc(arg))
    IN /\ res[1] = [ i \in DOMAIN t |-> AsciiFor(t[i]) ]
       /\ ~HasAny(res[1], CurlyQuotes \cup Dashes)
       /\ arg \in Seq(Printable \ AsciiUpper) => res[1] = arg

(***************************************************************************)
(* Properties of perform_linguistic_checks, checked under SpecGate         *)
(***************************************************************************)
\* C10: with L the length of body_text, the gate rejects exactly when L = 0
\* or L < min_length; otherwise it returns the record with the earlier flags
\* kept, extremely_long added exactly when L > max_length, very_short added
\* exactly when L < 100, and nothing else changed.  So no survivor carries
\* very_short when min_length >= 100, and one that carries both flags has
\* min_length < 100 and max_length < L.
C10_GateByLength ==
  upc = "done" =>
    LET a == arg.article
        L == PyLen(BodyTextOf(a))
        added == (IF L > arg.max_length THEN << "extremely_long" >> ELSE << >>)
                   \o (IF L < 100 THEN << "very_short" >> ELSE << >>)
    IN /\ ~res.ok <=> (L = 0 \/ L < arg.min_length)
       /\ res.ok =>
            /\ FlagsOf(res.article) = FlagsOf(a) \o added
            /\ DOMAIN res.article
                 = DOMAIN a \cup (IF added # << >> THEN { "flags" } ELSE {})
            /\ \A k \in DOMAIN a \ { "flags" } : res.article[k] = a[k]
            /\ arg.min_length >= 100 => "very_short" \notin Range(FlagsOf(res.article))
            /\ { "extremely_long", "very_short" } \subseteq Range(FlagsOf(res.article))
                 => arg.min_length < 100 /\ arg.max_length < L

\* C10 witness: a record of exactly min_length characters, flagged before
\* the call, is returned with both flags added
C10_Witness ==
  /\ upc = "done"
  /\ res.ok
  /\ arg.min_length > 0
  /\ PyLen(BodyTextOf(arg.article)) = arg.min_length
  /\ FlagsOf(res.article) = << "upstream", "extremely_long", "very_short" >>

(***************************************************************************)
(* Properties of normalize_numbers, checked under SpecNumbers              *)
(***************************************************************************)
\* the positions a..b hold digits only, with no word character before a
\* and none after b
BoundedDigitRun(text, a, b) ==
  /\ a <= b
  /\ \A m \in a..b : text[m] \in Digits
  /\ a = 1 \/ text[a - 1] \notin WordChars
  /\ b = Len(text) \/ text[b + 1] \notin WordChars

\* the text with every such run replaced by the token
WithNumTokens(text) ==
  LET runs == { r \in (DOMAIN text) \X (DOMAIN text) : BoundedDigitRun(text, r[1], r[2]) }
  IN Concat([ i \in DOMAIN text |->
                IF \E r \in runs : r[1] = i THEN NumToken
                ELSE IF \E r \in runs : r[1] < i /\ i <= r[2] THEN << >>
                ELSE << text[i] >> ])

\* "lost <NUM> of <NUM> matches"
Scenario5Body ==
  << "l", "o", "s", "t", " ", "<", "N", "U", "M", ">", " ", "o", "f", " ",
     "<", "N", "U", "M", ">", " ", "m", "a", "t", "c", "h", "e", "s" >>

\* C13: when enabled, body_text is returned with every maximal run of
\* digits between word boundaries replaced by <NUM> and every other
\* character in place; when disabled, or on the empty text, it is returned
\* unchanged; the title and the article_id are not touched.
C13_NumbersInBodyOnly ==
  upc = "done" =>
    /\ arg.flag => res.body_text = WithNumTokens(arg.v.body_text)
    /\ ~arg.flag \/ arg.v.body_text = << >> => res.body_text = arg.v.body_text
    /\ arg.flag /\ arg.v.body_text = TLost => res.body_text = Scenario5Body
    /\ res.title = arg.v.title
    /\ res.article_id = arg.v.article_id

\* C13 witness: enabled, a text with a run of two digits that is replaced
\* and a digit next to a letter that is not, under a title with digits
C13_Witness ==
  /\ upc = "done"
  /\ arg.flag
  /\ arg.v.body_text = << "1", "0", " ", "x", "3" >>
  /\ res.body_text = NumToken \o << " ", "x", "3" >>
  /\ res.title.s = TLost

====
